---- MODULE Spec2Model ----
(***************************************************************************)
(* Model of src/main.py: the voice-transcription bot's quota ledger        *)
(* (SQLite tables audio_stats and global_stats) and the handle_voice       *)
(* pipeline.                                                               *)
(*                                                                         *)
(* Representation notes.                                                   *)
(*  - REAL seconds are kept in fixed point as whole milliseconds:          *)
(*    len(audio) is an integer number of milliseconds and the code stores  *)
(*    len(audio) / 1000.  A field called audio_length_sec or               *)
(*    total_audio_sec therefore holds 1000 times the stored value, and     *)
(*    "total_audio_sec / 60 >= MAX_AUDIO_MINUTES" is evaluated as          *)
(*    total >= MAX_AUDIO_MINUTES * 60 * 1000.                              *)
(*  - Application.builder().token(...).build() leaves concurrent_updates   *)
(*    at its default (off) and the handlers are registered with the        *)
(*    default block=True, so run_polling awaits a handler to the end       *)
(*    before it takes the next update (DispatcherFree).                    *)
(*  - Every call that can raise (store access, Telegram calls, decoding,   *)
(*    the speech backend) takes its outcome from a small set with \E.      *)
(***************************************************************************)
EXTENDS Integers, Sequences, FiniteSets, TLC

\* ---- bounds -------------------------------------------------------------
MaxTasks == 2
MaxRequests == 3

\* ---- program constants --------------------------------------------------
MAX_AUDIO_MINUTES == 50

\* ---- input domains ------------------------------------------------------
Tasks == 1..MaxTasks
\* (effective_user.id, effective_user.username or first_name)
Identities == {<<1, "ann">>, <<2, "bob">>}
Users == {id[1] : id \in Identities}
\* measured clip lengths len(audio) in ms: 12 s and 25 min
ClipLengths == {12000, 1500000}
TranscribeFates == {"ok", "empty", "decode", "export", "backend"}
ErrorText == "Transcription error"

VARIABLES
  audio_stats,    \* committed rows of table audio_stats, in rowid order
  global_stats,   \* committed rows of table global_stats; last_updated is
                  \* a logical time, the number of usage rows at the write
  txn,            \* the open write transaction of track_audio_processing
  files,          \* temporary files present on disk
  tasks,          \* per handler slot: position and locals of handle_voice
  nreq,           \* voice updates dispatched so far
  recognized      \* number of speech_client.recognize calls made

vars == <<audio_stats, global_stats, txn, files, tasks, nreq, recognized>>

NoTxn == [open |-> FALSE]

\* the text last delivered to the user for a request: which template, the
\* transcript it carries and whether the limit annotation is appended
Message(kind, text, limit_message) ==
  [kind |-> kind, text |-> text, limit_message |-> limit_message]

NoMessage == Message("none", "", FALSE)

IdleTask ==
  [pc |-> "idle", req |-> 0, user_id |-> 0, username |-> "", clip |-> 0,
   limit_reached |-> FALSE, current_usage |-> 0,
   check_error |-> FALSE, report_error |-> FALSE,
   audio_length_sec |-> 0, transcript |-> "", fate |-> "", tracked |-> "",
   outcome |-> "none", escaped |-> FALSE, report |-> <<>>,
   reply |-> NoMessage]

\* ---- the store ----------------------------------------------------------
RECURSIVE SumSec(_)
SumSec(rows) ==
  IF rows = <<>> THEN 0
  ELSE rows[1].audio_length_sec + SumSec(Tail(rows))

\* SELECT total_audio_sec FROM global_stats WHERE id = 1; fetchone()
FetchTotal(gs) ==
  IF \E r \in gs : r.id = 1
  THEN LET r == CHOOSE r \in gs : r.id = 1 IN
       [found |-> TRUE, total_audio_sec |-> r.total_audio_sec,
        last_updated |-> r.last_updated]
  ELSE [found |-> FALSE, total_audio_sec |-> 0, last_updated |-> 0]

Total == FetchTotal(global_stats).total_audio_sec

init_db_always_insert(gs, now) ==
  gs \cup {[id |-> 1, total_audio_sec |-> 0, last_updated |-> now]}

init_db_replace(gs, now) ==
  {r \in gs : r.id # 1}
    \cup {[id |-> 1, total_audio_sec |-> 0, last_updated |-> now]}

\* CREATE TABLE IF NOT EXISTS ...;
\* INSERT OR IGNORE INTO global_stats VALUES (1, 0, CURRENT_TIMESTAMP)
init_db(gs, now) ==
  IF \E r \in gs : r.id = 1 THEN gs
  ELSE gs \cup {[id |-> 1, total_audio_sec |-> 0, last_updated |-> now]}

check_fail_closed(gs, ok) ==
  IF ~ok THEN [limit_reached |-> TRUE, current_usage |-> 0, error |-> TRUE]
  ELSE LET res == FetchTotal(gs) IN
       IF res.found
       THEN [limit_reached |-> res.total_audio_sec >= MAX_AUDIO_MINUTES * 60 * 1000,
             current_usage |-> res.total_audio_sec, error |-> FALSE]
       ELSE [limit_reached |-> FALSE, current_usage |-> 0, error |-> FALSE]

check_limit_strict(gs, ok) ==
  IF ~ok THEN [limit_reached |-> FALSE, current_usage |-> 0, error |-> TRUE]
  ELSE LET res == FetchTotal(gs) IN
       IF res.found
       THEN [limit_reached |-> res.total_audio_sec > MAX_AUDIO_MINUTES * 60 * 1000,
             current_usage |-> res.total_audio_sec, error |-> FALSE]
       ELSE [limit_reached |-> FALSE, current_usage |-> 0, error |-> FALSE]

\* check_global_audio_limit(); ok = FALSE is an exception from the store
check_global_audio_limit(gs, ok) ==
  IF ~ok THEN [limit_reached |-> FALSE, current_usage |-> 0, error |-> TRUE]
  ELSE LET res == FetchTotal(gs) IN
       IF res.found
       THEN [limit_reached |-> res.total_audio_sec >= MAX_AUDIO_MINUTES * 60 * 1000,
             current_usage |-> res.total_audio_sec, error |-> FALSE]
       ELSE [limit_reached |-> FALSE, current_usage |-> 0, error |-> FALSE]

\* ---- the dispatcher -----------------------------------------------------
InFlight(t) == tasks[t].pc \notin {"idle", "done"}

DispatcherConcurrent(t) == TRUE

\* run_polling with concurrent_updates off: one update at a time
DispatcherFree(t) == \A u \in Tasks \ {t} : ~InFlight(u)

transcribe_audio_nolen(fs, req, clip, fate) ==
  LET withWav == fs \cup {<<req, "wav">>} IN
  IF fate \in {"decode", "export", "backend"}
  THEN [files |-> withWav, audio_length_sec |-> 0, transcript |-> ErrorText,
        recognize |-> (fate = "backend")]
  ELSE [files |-> withWav \ {<<req, "wav">>, <<req, "raw">>},
        audio_length_sec |-> 0,
        transcript |-> IF fate = "ok" THEN "text" ELSE "",
        recognize |-> TRUE]

\* ---- transcribe_audio ---------------------------------------------------
\* The whole function, run in a worker thread.  fate says which statement
\* raises, if any: "decode" AudioSegment.from_file, "export" audio.export,
\* "backend" speech_client.recognize; "empty" is a response without results.
\* clip is len(audio) of the decoded file (0 when it cannot be decoded).
transcribe_audio(fs, req, clip, fate) ==
  LET withWav == fs \cup {<<req, "wav">>} IN
  IF fate \in {"decode", "export", "backend"}
  THEN [files |-> withWav, audio_length_sec |-> 0, transcript |-> ErrorText,
        recognize |-> (fate = "backend")]
  ELSE [files |-> withWav \ {<<req, "wav">>, <<req, "raw">>},
        audio_length_sec |-> clip,
        transcript |-> IF fate = "ok" THEN "text" ELSE "",
        recognize |-> TRUE]

update_total_overwrite(gs, d, now) ==
  {IF r.id = 1 THEN [r EXCEPT !.total_audio_sec = d, !.last_updated = now]
   ELSE r : r \in gs}

\* UPDATE global_stats SET total_audio_sec = total_audio_sec + ?,
\*   last_updated = CURRENT_TIMESTAMP WHERE id = 1
update_total(gs, d, now) ==
  {IF r.id = 1 THEN [r EXCEPT !.total_audio_sec = @ + d, !.last_updated = now]
   ELSE r : r \in gs}

\* ---- reports -----------------------------------------------------------
\* x / 60 as the fraction it is; the literal 0 is 0 / 1
Minutes(sec) == [num |-> sec, den |-> 60]

ZeroMinutes == [num |-> 0, den |-> 1]

UserRows(rows, user_id) == SelectSeq(rows, LAMBDA r : r.user_id = user_id)

\* MAX(processed_at) of the user's rows: the position of the latest one
LastRow(rows, user_id) ==
  LET idx == {i \in DOMAIN rows : rows[i].user_id = user_id} IN
  IF idx = {} THEN 0 ELSE CHOOSE i \in idx : \A j \in idx : j <= i

get_user_stats_all(rows, user_id, ok) ==
  LET total == SumSec(rows) IN
  IF ok /\ rows # <<>> /\ total # 0
  THEN [total_audio_min |-> Minutes(total), last_updated |-> Len(rows)]
  ELSE [total_audio_min |-> ZeroMinutes, last_updated |-> 0]

\* get_user_stats(user_id); last_updated 0 stands for None
get_user_stats(rows, user_id, ok) ==
  LET total == SumSec(UserRows(rows, user_id)) IN
  IF ok /\ UserRows(rows, user_id) # <<>> /\ total # 0
  THEN [total_audio_min |-> Minutes(total),
        last_updated |-> LastRow(rows, user_id)]
  ELSE [total_audio_min |-> ZeroMinutes, last_updated |-> 0]

GroupSum(rows, name) == SumSec(SelectSeq(rows, LAMBDA r : r.username = name))

\* the k groups with the largest totals, largest first, in every order
\* that equal totals allow
RECURSIVE TopK(_, _, _)
TopK(rows, names, k) ==
  IF k = 0 \/ names = {} THEN {<<>>}
  ELSE LET largest == {m \in names : \A o \in names :
                         GroupSum(rows, o) <= GroupSum(rows, m)}
       IN UNION {{<<(<<m, GroupSum(rows, m)>>)>> \o rest :
                    rest \in TopK(rows, names \ {m}, k - 1)} : m \in largest}

\* SELECT username, SUM(audio_length_sec) AS total_sec FROM audio_stats
\* GROUP BY username ORDER BY total_sec DESC LIMIT 5: every result the
\* query may give (rows with equal totals come in any order)
TopUsers(rows) == TopK(rows, {rows[i].username : i \in DOMAIN rows}, 5)

\* get_global_stats() with top_users as the query gave them
get_global_stats(rows, gs, top, ok) ==
  LET res == FetchTotal(gs) IN
  IF ok /\ res.found
  THEN [total_audio_min |-> Minutes(res.total_audio_sec),
        last_updated |-> res.last_updated,
        top_users |-> [i \in DOMAIN top |-> <<top[i][1], Minutes(top[i][2])>>]]
  ELSE [total_audio_min |-> ZeroMinutes, last_updated |-> 0, top_users |-> <<>>]

Init ==
  /\ audio_stats = <<>>
  /\ global_stats = init_db({}, 0)
  /\ txn = NoTxn
  /\ files = {}
  /\ tasks = [t \in Tasks |-> IdleTask]
  /\ nreq = 0
  /\ recognized = 0

Set(t, rec) == tasks' = [tasks EXCEPT ![t] = rec]

\* handle_voice returns or raises: its locals are gone; what is kept of the
\* run is the request, the pipeline state it ended in, the message the user
\* was left with and whether an exception left the handler.
Return(rec, outcome, escaped) ==
  [IdleTask EXCEPT !.pc = "done", !.req = rec.req, !.reply = rec.reply,
                   !.outcome = outcome, !.escaped = escaped]

\* the update is given to a free handler slot (slots are interchangeable)
FreeSlot(t) == ~InFlight(t) /\ \A u \in Tasks : u < t => InFlight(u)

\* ---- handle_voice ------------------------------------------------------
\* lines 347-352: a voice update is dispatched; the initial admission check
HandleVoice(t) ==
  /\ FreeSlot(t)
  /\ DispatcherFree(t)
  /\ nreq < MaxRequests
  /\ \E id \in Identities, ok \in BOOLEAN :
       LET chk == check_global_audio_limit(global_stats, ok) IN
       Set(t, [IdleTask EXCEPT
                 !.pc = IF chk.limit_reached THEN "reject_reply" ELSE "processing_reply",
                 !.req = nreq + 1, !.user_id = id[1], !.username = id[2],
                 !.limit_reached = chk.limit_reached,
                 !.current_usage = chk.current_usage,
                 !.check_error = chk.error,
                 !.outcome = IF chk.limit_reached THEN "Rejected" ELSE "none"])
  /\ nreq' = nreq + 1
  /\ UNCHANGED <<audio_stats, global_stats, txn, files, recognized>>

RejectReply_noreturn(t) ==
  /\ tasks[t].pc = "reject_reply"
  /\ \E ok \in BOOLEAN :
       Set(t, IF ok THEN [tasks[t] EXCEPT !.pc = "processing_reply",
                                          !.reply = Message("limit", "", TRUE)]
              ELSE Return(tasks[t], "Rejected", TRUE))
  /\ UNCHANGED <<audio_stats, global_stats, txn, files, nreq, recognized>>

\* lines 353-357: reply_text with the limit message, then return
RejectReply(t) ==
  /\ tasks[t].pc = "reject_reply"
  /\ \E ok \in BOOLEAN :
       Set(t, IF ok
              THEN Return([tasks[t] EXCEPT !.reply = Message("limit", "", TRUE)],
                          "Rejected", FALSE)
              ELSE Return(tasks[t], "Rejected", TRUE))
  /\ UNCHANGED <<audio_stats, global_stats, txn, files, nreq, recognized>>

\* line 360: reply_text("Processing ..."), outside the try block
ProcessingReply(t) ==
  /\ tasks[t].pc = "processing_reply"
  /\ \E ok \in BOOLEAN :
       Set(t, IF ok THEN [tasks[t] EXCEPT !.pc = "get_file",
                                          !.reply = Message("processing", "", FALSE)]
              ELSE Return(tasks[t], "none", TRUE))
  /\ UNCHANGED <<audio_stats, global_stats, txn, files, nreq, recognized>>

\* line 364: context.bot.get_file
GetFile(t) ==
  /\ tasks[t].pc = "get_file"
  /\ \E ok \in BOOLEAN :
       Set(t, [tasks[t] EXCEPT !.pc = IF ok THEN "download" ELSE "error_reply"])
  /\ UNCHANGED <<audio_stats, global_stats, txn, files, nreq, recognized>>

\* lines 367-368: NamedTemporaryFile(delete=False), download_to_drive
Download(t) ==
  /\ tasks[t].pc = "download"
  /\ files' = files \cup {<<tasks[t].req, "raw">>}
  /\ \E ok \in BOOLEAN :
       Set(t, [tasks[t] EXCEPT !.pc = IF ok THEN "transcribe" ELSE "error_reply"])
  /\ UNCHANGED <<audio_stats, global_stats, txn, nreq, recognized>>

\* line 371: await asyncio.to_thread(transcribe_audio, temp_file)
Transcribe(t) ==
  /\ tasks[t].pc = "transcribe"
  /\ \E fate \in TranscribeFates :
     \E clip \in IF fate = "decode" THEN {0} ELSE ClipLengths :
       LET res == transcribe_audio(files, tasks[t].req, clip, fate) IN
       /\ files' = res.files
       /\ recognized' = IF res.recognize THEN recognized + 1
                         ELSE recognized
       /\ Set(t, [tasks[t] EXCEPT !.pc = "track_insert", !.fate = fate,
                     !.clip = clip,
                     !.audio_length_sec = res.audio_length_sec,
                     !.transcript = res.transcript])
  /\ UNCHANGED <<audio_stats, global_stats, txn, nreq>>

\* ---- track_audio_processing (line 374), statement by statement ----------
\* A failing statement raises into "except Exception": nothing is committed
\* and the connection is dropped, which rolls the transaction back.
TrackInsert_autocommit(t) ==
  /\ tasks[t].pc = "track_insert"
  /\ ~txn.open
  /\ \E ok \in BOOLEAN :
       LET row == [user_id |-> tasks[t].user_id, username |-> tasks[t].username,
                   audio_length_sec |-> tasks[t].audio_length_sec] IN
       IF ok
       THEN /\ txn' = [open |-> TRUE, audio_stats |-> Append(audio_stats, row),
                       global_stats |-> global_stats]
            /\ audio_stats' = Append(audio_stats, row)
            /\ Set(t, [tasks[t] EXCEPT !.pc = "track_update"])
       ELSE /\ txn' = NoTxn
            /\ audio_stats' = audio_stats
            /\ Set(t, [tasks[t] EXCEPT !.pc = "recheck", !.tracked = "insert_failed"])
  /\ UNCHANGED <<global_stats, files, nreq, recognized>>

\* lines 77-84: connect, INSERT INTO audio_stats (opens the transaction)
TrackInsert(t) ==
  /\ tasks[t].pc = "track_insert"
  /\ ~txn.open
  /\ \E ok \in BOOLEAN :
       LET row == [user_id |-> tasks[t].user_id, username |-> tasks[t].username,
                   audio_length_sec |-> tasks[t].audio_length_sec] IN
       IF ok
       THEN /\ txn' = [open |-> TRUE, audio_stats |-> Append(audio_stats, row),
                       global_stats |-> global_stats]
            /\ Set(t, [tasks[t] EXCEPT !.pc = "track_update"])
       ELSE /\ txn' = NoTxn
            /\ Set(t, [tasks[t] EXCEPT !.pc = "recheck", !.tracked = "insert_failed"])
  /\ UNCHANGED <<audio_stats, global_stats, files, nreq, recognized>>

TrackUpdate_raises(t) ==
  /\ tasks[t].pc = "track_update"
  /\ \E ok \in BOOLEAN :
       IF ok
       THEN /\ txn' = [txn EXCEPT !.global_stats =
                         update_total(@, tasks[t].audio_length_sec, Len(audio_stats) + 1)]
            /\ Set(t, [tasks[t] EXCEPT !.pc = "track_commit"])
       ELSE /\ txn' = NoTxn
            /\ Set(t, [tasks[t] EXCEPT !.pc = "error_reply", !.tracked = "update_failed"])
  /\ UNCHANGED <<audio_stats, global_stats, files, nreq, recognized>>

\* lines 87-92: UPDATE global_stats inside the same transaction
TrackUpdate(t) ==
  /\ tasks[t].pc = "track_update"
  /\ \E ok \in BOOLEAN :
       IF ok
       THEN /\ txn' = [txn EXCEPT !.global_stats =
                         update_total(@, tasks[t].audio_length_sec, Len(audio_stats) + 1)]
            /\ Set(t, [tasks[t] EXCEPT !.pc = "track_commit"])
       ELSE /\ txn' = NoTxn
            /\ Set(t, [tasks[t] EXCEPT !.pc = "recheck", !.tracked = "update_failed"])
  /\ UNCHANGED <<audio_stats, global_stats, files, nreq, recognized>>

TrackCommit_upsert(t) ==
  /\ tasks[t].pc = "track_commit"
  /\ \E ok \in BOOLEAN :
       /\ IF ok
          THEN /\ audio_stats' =
                    SelectSeq(audio_stats,
                              LAMBDA r : r.user_id # tasks[t].user_id)
                      \o <<txn.audio_stats[Len(txn.audio_stats)]>>
               /\ global_stats' = txn.global_stats
          ELSE UNCHANGED <<audio_stats, global_stats>>
       /\ Set(t, [tasks[t] EXCEPT !.pc = "recheck",
                     !.tracked = IF ok THEN "committed" ELSE "commit_failed"])
  /\ txn' = NoTxn
  /\ UNCHANGED <<files, nreq, recognized>>

\* lines 94-95: commit, close
TrackCommit(t) ==
  /\ tasks[t].pc = "track_commit"
  /\ \E ok \in BOOLEAN :
       /\ IF ok
          THEN /\ audio_stats' = txn.audio_stats
               /\ global_stats' = txn.global_stats
          ELSE UNCHANGED <<audio_stats, global_stats>>
       /\ Set(t, [tasks[t] EXCEPT !.pc = "recheck",
                     !.tracked = IF ok THEN "committed" ELSE "commit_failed"])
  /\ txn' = NoTxn
  /\ UNCHANGED <<files, nreq, recognized>>

\* lines 377-380: the admission check after recording
Recheck(t) ==
  /\ tasks[t].pc = "recheck"
  /\ \E ok \in BOOLEAN :
       LET chk == check_global_audio_limit(global_stats, ok) IN
       Set(t, [tasks[t] EXCEPT !.pc = "final_reply",
                 !.limit_reached = chk.limit_reached,
                 !.current_usage = chk.current_usage,
                 !.check_error = chk.error])
  /\ UNCHANGED <<audio_stats, global_stats, txn, files, nreq, recognized>>

\* The pipeline state a finished run is in: the text returned at line 343
\* is reported to the user as the failure; anything else is the transcript.
Outcome(transcript) ==
  IF transcript = ErrorText THEN "Failed" ELSE "Completed"

\* lines 378-386: the text of the final edit
FinalText(transcript, limit_reached) ==
  Message(IF transcript # "" THEN "transcript" ELSE "sorry", transcript,
          limit_reached)

FinalReply_rejects(t) ==
  /\ tasks[t].pc = "final_reply"
  /\ \E ok \in BOOLEAN :
       Set(t, IF ~ok THEN [tasks[t] EXCEPT !.pc = "error_reply"]
              ELSE IF tasks[t].limit_reached
              THEN Return([tasks[t] EXCEPT !.reply = Message("limit", "", TRUE)],
                          "Rejected", FALSE)
              ELSE Return([tasks[t] EXCEPT !.reply =
                             FinalText(tasks[t].transcript, FALSE)],
                          Outcome(tasks[t].transcript), FALSE))
  /\ UNCHANGED <<audio_stats, global_stats, txn, files, nreq, recognized>>

\* lines 383-386: message.edit_text with the transcript
FinalReply(t) ==
  /\ tasks[t].pc = "final_reply"
  /\ \E ok \in BOOLEAN :
       Set(t, IF ok
              THEN Return([tasks[t] EXCEPT !.reply =
                             FinalText(tasks[t].transcript, tasks[t].limit_reached)],
                          Outcome(tasks[t].transcript), FALSE)
              ELSE [tasks[t] EXCEPT !.pc = "error_reply"])
  /\ UNCHANGED <<audio_stats, global_stats, txn, files, nreq, recognized>>

\* lines 387-389: except Exception: message.edit_text("Error: ...")
ErrorReply(t) ==
  /\ tasks[t].pc = "error_reply"
  /\ \E ok \in BOOLEAN :
       Set(t, IF ok
              THEN Return([tasks[t] EXCEPT !.reply = Message("error", "", FALSE)],
                          "Failed", FALSE)
              ELSE Return(tasks[t], "Failed", TRUE))
  /\ UNCHANGED <<audio_stats, global_stats, txn, files, nreq, recognized>>

\* ---- the commands ------------------------------------------------------
\* A command handler reads the store and ends with one reply_text; a
\* failure of that reply leaves the handler and changes nothing.
\* stats_command: get_user_stats, check_global_audio_limit, reply_text
StatsCommand(t) ==
  /\ FreeSlot(t)
  /\ DispatcherFree(t)
  /\ \E user_id \in Users, ok1 \in BOOLEAN, ok2 \in BOOLEAN :
       LET user_stats == get_user_stats(audio_stats, user_id, ok1)
           chk == check_global_audio_limit(global_stats, ok2)
       IN Set(t, [IdleTask EXCEPT !.pc = "done", !.user_id = user_id,
                    !.outcome = "Stats",
                    !.limit_reached = chk.limit_reached,
                    !.current_usage = chk.current_usage,
                    !.check_error = chk.error,
                    !.report_error = ~ok1,
                    !.report = user_stats])
  /\ UNCHANGED <<audio_stats, global_stats, txn, files, nreq, recognized>>

\* global_stats_command: get_global_stats, reply_text
GlobalStatsCommand(t) ==
  /\ FreeSlot(t)
  /\ DispatcherFree(t)
  /\ \E top \in TopUsers(audio_stats), ok \in BOOLEAN :
       Set(t, [IdleTask EXCEPT !.pc = "done", !.outcome = "GlobalStats",
                 !.report_error = ~ok,
                 !.report = get_global_stats(audio_stats, global_stats, top, ok)])
  /\ UNCHANGED <<audio_stats, global_stats, txn, files, nreq, recognized>>

\* ---- process restart: the module body runs init_db() again (line 229) ---
Restart ==
  /\ \A t \in Tasks : ~InFlight(t)
  /\ \E t \in Tasks : tasks[t].pc = "done"
  /\ global_stats' = init_db(global_stats, Len(audio_stats))
  /\ tasks' = [t \in Tasks |-> IdleTask]
  /\ UNCHANGED <<audio_stats, txn, files, nreq, recognized>>

Next ==
  \/ \E t \in Tasks : HandleVoice(t)
  \/ \E t \in Tasks : RejectReply(t)
  \/ \E t \in Tasks : ProcessingReply(t)
  \/ \E t \in Tasks : GetFile(t)
  \/ \E t \in Tasks : Download(t)
  \/ \E t \in Tasks : Transcribe(t)
  \/ \E t \in Tasks : TrackInsert(t)
  \/ \E t \in Tasks : TrackUpdate(t)
  \/ \E t \in Tasks : TrackCommit(t)
  \/ \E t \in Tasks : Recheck(t)
  \/ \E t \in Tasks : FinalReply(t)
  \/ \E t \in Tasks : ErrorReply(t)
  \/ \E t \in Tasks : StatsCommand(t)
  \/ \E t \in Tasks : GlobalStatsCommand(t)
  \/ Restart

Spec == Init /\ [][Next]_vars

\* ---- the reports on a store with history --------------------------------
\* Usage rows earlier runs may have left: users A..F of 20, 5, 5, 1, 1, 1
\* minutes, user 7 who also shows up as "A", and user 2 again after a
\* change of name.  39 minutes in all, so each store below is one that
\* successive admitted requests produce.
ReportCandidates ==
  << [user_id |-> 1, username |-> "A", audio_length_sec |-> 20 * 60 * 1000],
     [user_id |-> 2, username |-> "B", audio_length_sec |-> 5 * 60 * 1000],
     [user_id |-> 3, username |-> "C", audio_length_sec |-> 5 * 60 * 1000],
     [user_id |-> 4, username |-> "D", audio_length_sec |-> 60 * 1000],
     [user_id |-> 5, username |-> "E", audio_length_sec |-> 60 * 1000],
     [user_id |-> 6, username |-> "F", audio_length_sec |-> 60 * 1000],
     [user_id |-> 7, username |-> "A", audio_length_sec |-> 60 * 1000],
     [user_id |-> 2, username |-> "G", audio_length_sec |-> 5 * 60 * 1000] >>

\* the candidates with index in S, in order
RECURSIVE PickRows(_, _)
PickRows(S, i) ==
  IF i > Len(ReportCandidates) THEN <<>>
  ELSE (IF i \in S THEN <<ReportCandidates[i]>> ELSE <<>>) \o PickRows(S, i + 1)

InitReports ==
  /\ audio_stats \in {PickRows(S, 1) : S \in SUBSET DOMAIN ReportCandidates}
  /\ global_stats = update_total(init_db({}, 0), SumSec(audio_stats),
                                 Len(audio_stats))
  /\ txn = NoTxn
  /\ files = {}
  /\ tasks = [t \in Tasks |-> IdleTask]
  /\ nreq = 0
  /\ recognized = 0

NextReports ==
  \/ \E t \in Tasks : StatsCommand(t)
  \/ \E t \in Tasks : GlobalStatsCommand(t)
  \/ Restart

SpecReports == InitReports /\ [][NextReports]_vars

\* ---- claims ------------------------------------------------------------
Limit == MAX_AUDIO_MINUTES * 60 * 1000

Stepped(t) == tasks'[t] # tasks[t]

StoreUnchanged == audio_stats' = audio_stats /\ global_stats' = global_stats

Row(t, d) ==
  [user_id |-> tasks[t].user_id, username |-> tasks[t].username,
   audio_length_sec |-> d]

\* C1 (conservation): in every reachable state the global counter
\* total_audio_sec equals the sum of audio_length_sec over all rows of
\* audio_stats.
C1_Conservation == Total = SumSec(audio_stats)

C1_Witness == Len(audio_stats) >= 2 /\ Total = 12000 + 1500000

\* C2 (RecordUsage atomicity): every step leaves the persisted store as it
\* was, or appends one row and raises the counter by that row's duration;
\* after a statement of track_audio_processing has failed nothing of the
\* call is persisted.
C2_Atomic ==
  [][\/ StoreUnchanged
     \/ \E t \in Tasks :
          /\ audio_stats' = Append(audio_stats, Row(t, tasks[t].audio_length_sec))
          /\ Total' = Total + tasks[t].audio_length_sec]_vars

\* the UPDATE failed after the INSERT of a 12 s row: nothing is persisted
C2_Witness ==
  \E t \in Tasks :
    /\ tasks[t].tracked = "update_failed"
    /\ tasks[t].audio_length_sec = 12000
    /\ audio_stats = <<>> /\ Total = 0

\* C3 (monotonicity): the persisted total_audio_sec never decreases from
\* one state to the next, whichever operation runs (pipeline steps,
\* admission checks, init_db at a restart).
C3_Monotonic == [][Total' >= Total]_vars

\* init_db has run again on a store that already holds usage
C3_Witness == Total > 0 /\ \A t \in Tasks : tasks[t].pc = "idle"

\* a step in which task t runs check_global_audio_limit
CheckStep(t) ==
  \/ ~InFlight(t) /\ tasks'[t].pc \in {"reject_reply", "processing_reply"}
  \/ tasks[t].pc = "recheck" /\ tasks'[t].pc = "final_reply"

\* C4 as stated: once the persisted total is at or over the ceiling every
\* admission check reports the limit reached.
C4_AlwaysRejects ==
  [][\A t \in Tasks :
       (Total >= Limit /\ CheckStep(t)) => tasks'[t].limit_reached]_vars

\* C4 (admission correctness, amended): once the persisted total is at or
\* over the ceiling, every admission check that reads the store reports
\* the limit reached, and a request whose initial check does so goes to
\* Rejected; a check during which the store raises reports (False, 0).
C4_RejectsWhenReadable ==
  [][\A t \in Tasks :
       (Total >= Limit /\ CheckStep(t)) =>
         IF tasks'[t].check_error
         THEN ~tasks'[t].limit_reached /\ tasks'[t].current_usage = 0
         ELSE /\ tasks'[t].limit_reached
              /\ ~InFlight(t) => tasks'[t].pc = "reject_reply"]_vars

\* a request is turned away with the total at exactly 50 minutes
C4_Witness ==
  \E t \in Tasks :
    /\ tasks[t].pc = "reject_reply" /\ ~tasks[t].check_error
    /\ Total = Limit

\* C5 (rejection has no side effects): a request whose initial admission
\* check reports the limit reached changes neither the store, nor the
\* files on disk, nor the number of backend calls, and its only further
\* step is to end in Rejected.
C5_RejectionFrame ==
  [][\A t \in Tasks :
       /\ (~InFlight(t) /\ tasks'[t].pc = "reject_reply") =>
            /\ StoreUnchanged /\ files' = files /\ recognized' = recognized
            /\ tasks'[t].outcome = "Rejected"
       /\ (tasks[t].pc = "reject_reply" /\ Stepped(t)) =>
            /\ StoreUnchanged /\ files' = files /\ recognized' = recognized
            /\ tasks'[t].pc = "done" /\ tasks'[t].outcome = "Rejected"]_vars

C5_Witness ==
  \E t \in Tasks :
    /\ tasks[t].pc = "done" /\ tasks[t].outcome = "Rejected"
    /\ Total >= Limit /\ Len(audio_stats) = 2
SuccessFates == {"ok", "empty"}

TrackResults == {"committed", "insert_failed", "update_failed", "commit_failed"}

C7_BackendFailureBilled ==
  [][\A t \in Tasks :
       (tasks[t].fate = "backend" /\ tasks[t].pc = "track_commit"
          /\ tasks'[t].tracked = "committed") =>
         /\ audio_stats' = Append(audio_stats, Row(t, tasks[t].clip))
         /\ Total' = Total + tasks[t].clip]_vars

\* C8 (decode failure records nothing): no step of a run whose input could
\* not be decoded appends a row or changes the global counter.
C8_DecodeRecordsNothing ==
  [][\A t \in Tasks :
       (tasks[t].fate = "decode" /\ Stepped(t)) => StoreUnchanged]_vars

\* C9 (guaranteed cleanup): once a run has ended, neither its downloaded
\* raw file nor its intermediate WAV file is on disk.
C9_CleanupDone ==
  \A t \in Tasks :
    (tasks[t].pc = "done" /\ tasks[t].req > 0) =>
      /\ <<tasks[t].req, "raw">> \notin files
      /\ <<tasks[t].req, "wav">> \notin files

\* C10 (concurrent admission): while a request is between its admission
\* check and its recording, the admission check of another voice request
\* can run.
C10_ConcurrentAdmission ==
  \A t \in Tasks :
    (tasks[t].pc \in {"processing_reply", "get_file", "download", "transcribe"}
       /\ nreq < MaxRequests) =>
      \E u \in Tasks \ {t} : ENABLED HandleVoice(u)
\* C11 (admission fails open): an admission check during which the store
\* raises reports (not over limit, usage 0) whatever the persisted total
\* is, and a request whose initial check does so goes on to processing
\* instead of being rejected.
C11_FailsOpen ==
  [][\A t \in Tasks :
       (CheckStep(t) /\ tasks'[t].check_error) =>
         /\ ~tasks'[t].limit_reached /\ tasks'[t].current_usage = 0
         /\ ~InFlight(t) =>
              (tasks'[t].pc = "processing_reply" /\ tasks'[t].outcome = "none")]_vars

\* a request admitted by a failed check with the total at the ceiling
C11_Witness ==
  \E t \in Tasks :
    /\ tasks[t].pc = "processing_reply" /\ tasks[t].check_error
    /\ Total >= Limit
FinalKinds == {"limit", "transcript", "sorry", "error"}

\* C12 (definite outcome): a voice request that has ended is in exactly
\* one of Completed, Rejected, Failed, the user holds a final message for
\* it, and no exception has left handle_voice.
C12_DefiniteOutcome ==
  \A t \in Tasks :
    (tasks[t].pc = "done" /\ tasks[t].req > 0) =>
      /\ tasks[t].outcome \in {"Completed", "Rejected", "Failed"}
      /\ tasks[t].reply.kind \in FinalKinds
      /\ ~tasks[t].escaped
\* C13 (blocking isolation): while a request is blocked in a slow step
\* (file transfer, transcription, store access), another user's update can
\* be taken up: a voice request's admission check or a stats command.
C13_BlockingIsolation ==
  \A t \in Tasks :
    tasks[t].pc \in {"get_file", "download", "transcribe",
                     "track_insert", "track_update", "track_commit"} =>
      \E u \in Tasks \ {t} :
        \/ nreq < MaxRequests /\ ENABLED HandleVoice(u)
        \/ ENABLED StatsCommand(u)
\* C14 as stated: a run that was admitted and transcribed successfully
\* always hands over its transcript and ends in Completed.
C14_AlwaysCompleted ==
  [][\A t \in Tasks :
       (tasks[t].pc = "final_reply" /\ tasks[t].fate = "ok" /\ Stepped(t)) =>
         /\ tasks'[t].pc = "done" /\ tasks'[t].outcome = "Completed"
         /\ tasks'[t].reply.kind = "transcript"]_vars

\* C14 (no retroactive rejection, amended): no run that passed the initial
\* admission check ends in Rejected; the final edit of a successfully
\* transcribed run carries the transcript, with the limit annotation
\* exactly when the re-check reported the limit, and the run ends in
\* Completed, unless that edit_text call raises, which sends the handler
\* into its except branch.
C14_NoRetroactiveRejection ==
  [][\A t \in Tasks :
       /\ (InFlight(t) /\ tasks[t].pc # "reject_reply" /\ Stepped(t)) =>
            tasks'[t].outcome # "Rejected"
       /\ (tasks[t].pc = "final_reply" /\ tasks[t].fate = "ok" /\ Stepped(t)) =>
            \/ /\ tasks'[t].pc = "done" /\ tasks'[t].outcome = "Completed"
               /\ ~tasks'[t].escaped
               /\ tasks'[t].reply =
                    Message("transcript", tasks[t].transcript, tasks[t].limit_reached)
            \/ tasks'[t].pc = "error_reply"]_vars

\* a transcript delivered with the annotation, the total over the ceiling
C14_Witness ==
  \E t \in Tasks :
    /\ tasks[t].pc = "done" /\ tasks[t].outcome = "Completed"
    /\ tasks[t].reply = Message("transcript", "text", TRUE)
    /\ Total >= Limit
\* a step in which stats_command answers in slot t
StatsStep(t) == tasks'[t].outcome = "Stats" /\ Stepped(t)

\* total_audio_min * 60 = sec, over the fraction
MinutesAre(m, sec) == m.num * 60 = sec * m.den

\* C15 as stated: every per-user report carries the sum of that user's
\* rows, and zero minutes without last activity for a user without rows.
C15_ReportIsUserSum ==
  [][\A t \in Tasks :
       StatsStep(t) =>
         LET mine == UserRows(audio_stats, tasks'[t].user_id) IN
         /\ MinutesAre(tasks'[t].report.total_audio_min, SumSec(mine))
         /\ mine = <<>> => tasks'[t].report.last_updated = 0]_vars

\* C15 (per-user report, amended): a per-user report whose store read
\* succeeds carries the sum of the durations of the rows with that
\* user_id, and zero minutes without last activity for a user without
\* rows; a report whose store read raises carries zero minutes and no
\* last activity.
C15_UserReport ==
  [][\A t \in Tasks :
       StatsStep(t) =>
         LET mine == UserRows(audio_stats, tasks'[t].user_id) IN
         IF tasks'[t].report_error
         THEN /\ MinutesAre(tasks'[t].report.total_audio_min, 0)
              /\ tasks'[t].report.last_updated = 0
         ELSE /\ MinutesAre(tasks'[t].report.total_audio_min, SumSec(mine))
              /\ mine = <<>> => tasks'[t].report.last_updated = 0]_vars

\* user 1 is told 25 min 12 s while user 2 also has a row
C15_Witness ==
  \E t \in Tasks :
    /\ tasks[t].outcome = "Stats" /\ tasks[t].user_id = 1
    /\ ~tasks[t].report_error
    /\ MinutesAre(tasks[t].report.total_audio_min, 12000 + 1500000)
    /\ UserRows(audio_stats, 2) # <<>>
UserTotal(rows, user_id) == SumSec(UserRows(rows, user_id))

\* C16 (top-users report): a global report whose store read succeeds
\* lists min(5, number of users) entries, one per distinct user_id with
\* that user's total minutes, in non-increasing order, and no user left
\* out has a larger total than a listed one.
C16_TopUsersPerUser ==
  [][\A t \in Tasks :
       (tasks'[t].outcome = "GlobalStats" /\ Stepped(t)
          /\ ~tasks'[t].report_error) =>
         LET top == tasks'[t].report.top_users
             users == {audio_stats[i].user_id : i \in DOMAIN audio_stats}
             n == IF Cardinality(users) < 5 THEN Cardinality(users) ELSE 5
         IN /\ Len(top) = n
            /\ \E f \in [1..n -> users] :
                 /\ \A i, j \in 1..n : i # j => f[i] # f[j]
                 /\ \A i \in 1..n :
                      MinutesAre(top[i][2], UserTotal(audio_stats, f[i]))
                 /\ \A i, j \in 1..n :
                      i < j => UserTotal(audio_stats, f[i]) >=
                               UserTotal(audio_stats, f[j])
                 /\ \A u \in users : \A i \in 1..n :
                      (\A j \in 1..n : f[j] # u) =>
                        UserTotal(audio_stats, u) <= UserTotal(audio_stats, f[i])]_vars
\* C17 (usage rows are append-only): every step leaves audio_stats as it
\* is or adds one row at the end with all earlier rows unchanged, and a
\* row is added only by the commit of track_audio_processing.
C17_AppendOnly ==
  [][\/ audio_stats' = audio_stats
     \/ /\ Len(audio_stats') = Len(audio_stats) + 1
        /\ SubSeq(audio_stats', 1, Len(audio_stats)) = audio_stats
        /\ \E t \in Tasks : /\ tasks[t].pc = "track_commit"
                            /\ tasks'[t].tracked = "committed"]_vars

\* a user's second row has been committed and the first is still there
C17_Witness ==
  /\ Len(audio_stats) = 2
  /\ audio_stats[1].user_id = audio_stats[2].user_id
  /\ \E t \in Tasks : tasks[t].tracked = "committed"
\* a step in which the process starts again and init_db runs on the
\* store the previous run left
RestartStep ==
  /\ \E t \in Tasks : tasks[t].pc = "done"
  /\ \A t \in Tasks : tasks'[t] = IdleTask

\* C18 (the store survives restarts): global_stats holds exactly one row,
\* with id = 1, in every reachable state; it starts with total 0; and
\* init_db run again on an existing store leaves every usage row and the
\* global-counter row as they were.
C18_StoreSurvivesRestart ==
  /\ Total = 0 /\ audio_stats = <<>>
  /\ [](Cardinality(global_stats) = 1 /\ \A r \in global_stats : r.id = 1)
  /\ [][RestartStep => /\ audio_stats' = audio_stats
                       /\ global_stats' = global_stats]_vars

\* the process has started again on a store holding two usage rows whose
\* durations the counter row carries
C18_Witness ==
  /\ \A t \in Tasks : tasks[t] = IdleTask
  /\ Len(audio_stats) = 2
  /\ Total = SumSec(audio_stats)
  /\ global_stats = {[id |-> 1, total_audio_sec |-> Total, last_updated |-> 2]}
\* the longest clip, D, and the number of requests in flight at once, N:
\* the Application built at line 395 handles one update at a time
MaxClip == CHOOSE d \in ClipLengths : \A e \in ClipLengths : e <= d
MaxInFlight == 1

\* C19 as stated: the persisted total stays under the ceiling plus N clips
\* of the longest duration in every reachable state.
C19_BoundedOvershoot == Total < Limit + MaxInFlight * MaxClip

\* C19 (bounded overshoot, amended): at most N = 1 request is in flight at
\* once, and a request whose admission check read the store commits its
\* usage onto a total that is still below the ceiling, so that the total
\* it leaves is under the ceiling plus one clip; a request admitted by a
\* check during which the store raised (fail-open) is not so bounded.
C19_OvershootAfterReadableCheck ==
  /\ [](Cardinality({t \in Tasks : InFlight(t)}) <= MaxInFlight)
  /\ [][\A t \in Tasks :
          (/\ tasks[t].pc = "track_commit"
           /\ ~tasks[t].check_error
           /\ Total' # Total)
          => /\ tasks[t].current_usage = Total
             /\ Total < Limit
             /\ Total' < Limit + MaxInFlight * MaxClip]_vars

\* a request admitted by a check that read a total under the ceiling has
\* committed a clip that takes the total over it
C19_Witness ==
  \E t \in Tasks :
    /\ tasks[t].pc = "recheck" /\ tasks[t].tracked = "committed"
    /\ ~tasks[t].check_error
    /\ tasks[t].current_usage < Limit
    /\ Total > Limit
TrackFailures == {"insert_failed", "update_failed", "commit_failed"}

TrackSteps == {"track_insert", "track_update", "track_commit"}

\* C20 as stated: a run whose transcription succeeded and whose usage
\* could not be recorded still ends in Completed with the transcript
\* handed to the user.
C20_StillCompleted ==
  [][\A t \in Tasks :
       (/\ tasks[t].pc = "final_reply" /\ tasks[t].fate = "ok"
        /\ tasks[t].tracked \in TrackFailures /\ Stepped(t)) =>
         /\ tasks'[t].pc = "done" /\ tasks'[t].outcome = "Completed"
         /\ tasks'[t].reply.text = tasks[t].transcript]_vars

\* C20 (a recording failure is swallowed, amended): when the store fails
\* in track_audio_processing the call raises nothing (the handler goes on
\* to its re-check), the store holds neither the usage row nor the counter
\* increment, no later step of that run writes them, and the run of a
\* successful transcription ends in Completed with the transcript handed
\* over, unless the final edit_text call raises.
C20_RecordingFailureSwallowed ==
  [][\A t \in Tasks :
       /\ (tasks[t].pc \in TrackSteps /\ tasks'[t].tracked \in TrackFailures) =>
            /\ StoreUnchanged
            /\ txn' = NoTxn
            /\ tasks'[t].pc = "recheck"
            /\ tasks'[t].transcript = tasks[t].transcript
       /\ (tasks[t].tracked \in TrackFailures /\ Stepped(t)) => StoreUnchanged
       /\ (/\ tasks[t].pc = "final_reply" /\ tasks[t].fate = "ok"
           /\ tasks[t].tracked \in TrackFailures /\ Stepped(t)) =>
            \/ /\ tasks'[t].pc = "done" /\ tasks'[t].outcome = "Completed"
               /\ tasks'[t].reply.kind = "transcript"
               /\ tasks'[t].reply.text = tasks[t].transcript
               /\ SumSec(audio_stats') = SumSec(audio_stats)
            \/ tasks'[t].pc = "error_reply"]_vars

\* the transcript of a 25-minute clip is about to be handed over while the
\* store, whose UPDATE failed, holds nothing of it
C20_Witness ==
  \E t \in Tasks :
    /\ tasks[t].pc = "final_reply" /\ tasks[t].fate = "ok"
    /\ tasks[t].tracked = "update_failed"
    /\ tasks[t].audio_length_sec = 1500000
    /\ audio_stats = <<>> /\ Total = 0
====
